---------------------------- MODULE Spec2Model ----------------------------
(***************************************************************************)
(* A model of maze_game.py: the Maze class (odd-rounding of the            *)
(* dimensions, randomized depth-first generation, breadth-first solve and  *)
(* path reconstruction) and the MazeGame key handlers.                     *)
(*                                                                         *)
(* Three specifications share the variables:                               *)
(*   SpecGen    Maze.__init__ and Maze._generate, one loop iteration per   *)
(*              step, for every requested size and every shuffle outcome;  *)
(*   SpecSolve  Maze.solve and Maze.reconstruct_path on arbitrary grids;   *)
(*   Spec       MazeGame: construction, handle_input, handle_win_input.    *)
(***************************************************************************)
EXTENDS Integers, Sequences, FiniteSets, TLC

VARIABLES
    reqW, reqH,         \* the width and height arguments of the constructor
    width, height,      \* Maze.width, Maze.height
    grid,               \* Maze.grid: a list of rows, each a list of 0 / 1
    stack,              \* the local stack of Maze._generate
    pc,                 \* the control position of the running program
    err,                \* the exception that ended the program, or "none"
    player_pos,         \* MazeGame.player_pos
    goal_pos,           \* MazeGame.goal_pos
    show_solution,      \* MazeGame.show_solution
    solution_path,      \* MazeGame.solution_path
    key,                \* the key last read by getch()
    start, goal,        \* the arguments of Maze.solve
    predecessors,       \* the map returned by Maze.solve
    path                \* the list returned by Maze.reconstruct_path

vars == <<reqW, reqH, width, height, grid, stack, pc, err, player_pos,
          goal_pos, show_solution, solution_path, key, start, goal,
          predecessors, path>>

mazeVars  == <<reqW, reqH, width, height, grid, stack>>
gameVars  == <<player_pos, goal_pos, show_solution, solution_path, key>>
solveVars == <<start, goal, predecessors, path>>

-----------------------------------------------------------------------------
(* Bounds of the model *)

\* the largest requested width and height
MaxReqW == 7
MaxReqH == 4

\* the width and height of the hand-built grids given to the solver
SolveW == 3
SolveH == 3

-----------------------------------------------------------------------------
(* Cell states and Python lists *)

Passage == 0
Wall == 1

\* the value of a variable that holds nothing (Python's None, or not yet set)
None == << >>

\* the value of key before any key has been read
NoKey == ""

\* a Python list is a sequence; list index i is sequence index i + 1.
\* list[i] accepts -len <= i < len and counts a negative i from the end.
ValidIndex(i, n) == -n <= i /\ i < n
PyIndex(i, n) == IF i < 0 THEN i + n ELSE i

\* grid[y][x] can be evaluated without IndexError
CanIndex(g, y, x) ==
    /\ ValidIndex(y, Len(g))
    /\ ValidIndex(x, Len(g[PyIndex(y, Len(g)) + 1]))

\* the value of grid[y][x]
GridGet(g, y, x) ==
    LET row == g[PyIndex(y, Len(g)) + 1]
    IN  row[PyIndex(x, Len(row)) + 1]

\* the grid after grid[y][x] = v
GridSet(g, y, x, v) ==
    LET r == PyIndex(y, Len(g)) + 1
        c == PyIndex(x, Len(g[r])) + 1
    IN  [g EXCEPT ![r] = [@ EXCEPT ![c] = v]]

-----------------------------------------------------------------------------
(* Maze.__init__ *)

\* OddRound with the parity test inverted
OddRoundInverted(n) == IF n % 2 = 1 THEN n + 1 ELSE n

\* a dimension is incremented by one if it is even
OddRound(n) == IF n % 2 = 0 THEN n + 1 ELSE n

\* a grid full of walls: height rows of width cells
WallGrid(w, h) == [y \in 1..h |-> [x \in 1..w |-> Wall]]

-----------------------------------------------------------------------------
(* Maze._generate *)

start_x == 1
start_y == 1

\* directions with steps of one cell instead of two
directionsStepOne == << <<0, -1>>, <<0, 1>>, <<1, 0>>, <<-1, 0>> >>

\* Directions: (dx, dy) pairs for N, S, E, W
directions == << <<0, -2>>, <<0, 2>>, <<2, 0>>, <<-2, 0>> >>

\* the outcomes of random.shuffle(directions): every ordering of the list
Shuffles ==
    { p \in [1..4 -> 1..4] : \A i, j \in 1..4 : i # j => p[i] # p[j] }

shuffle(p) == [i \in 1..4 |-> directions[p[i]]]

\* InBounds without the two lower limits
InBoundsNoLower(w, h, nx, ny) == nx < w - 1 /\ ny < h - 1

\* the bounds check of the carving loop
InBounds(w, h, nx, ny) == 1 <= nx /\ nx < w - 1 /\ 1 <= ny /\ ny < h - 1

\* the test that lets the loop carve towards (nx, ny)
CanCarve(g, w, h, nx, ny) ==
    InBounds(w, h, nx, ny) /\ GridGet(g, ny, nx) = Wall

\* Carve with the wall between the two cells left standing
CarveTargetOnly(g, x, y, dx, dy) == GridSet(g, y + dy, x + dx, Passage)

\* the grid after carving from (x, y) in direction (dx, dy)
Carve(g, x, y, dx, dy) ==
    GridSet(GridSet(g, y + dy, x + dx, Passage),
            y + (dy \div 2), x + (dx \div 2), Passage)

\* LoopBody that leaves the stack as it is when nothing can be carved
LoopBodyNoPop(g, st, w, h, dirs) ==
    LET x == st[Len(st)][1]
        y == st[Len(st)][2]
        ok == { i \in 1..4 : CanCarve(g, w, h, x + dirs[i][1], y + dirs[i][2]) }
    IN  IF ok # {}
        THEN LET i == CHOOSE k \in ok : \A m \in ok : k <= m
                 dx == dirs[i][1]
                 dy == dirs[i][2]
             IN  [grid |-> Carve(g, x, y, dx, dy),
                  stack |-> Append(st, <<x + dx, y + dy>>)]
        ELSE [grid |-> g, stack |-> st]

\* LoopBody that empties the stack when nothing can be carved
LoopBodyNoBacktrack(g, st, w, h, dirs) ==
    LET x == st[Len(st)][1]
        y == st[Len(st)][2]
        ok == { i \in 1..4 : CanCarve(g, w, h, x + dirs[i][1], y + dirs[i][2]) }
    IN  IF ok # {}
        THEN LET i == CHOOSE k \in ok : \A m \in ok : k <= m
                 dx == dirs[i][1]
                 dy == dirs[i][2]
             IN  [grid |-> Carve(g, x, y, dx, dy),
                  stack |-> Append(st, <<x + dx, y + dy>>)]
        ELSE [grid |-> g, stack |-> << >>]

\* LoopBody that pushes the current cell instead of the carved one
LoopBodyPushCurrent(g, st, w, h, dirs) ==
    LET x == st[Len(st)][1]
        y == st[Len(st)][2]
        ok == { i \in 1..4 : CanCarve(g, w, h, x + dirs[i][1], y + dirs[i][2]) }
    IN  IF ok # {}
        THEN LET i == CHOOSE k \in ok : \A m \in ok : k <= m
                 dx == dirs[i][1]
                 dy == dirs[i][2]
             IN  [grid |-> Carve(g, x, y, dx, dy),
                  stack |-> Append(st, <<x, y>>)]
        ELSE [grid |-> g, stack |-> SubSeq(st, 1, Len(st) - 1)]

\* One iteration of the while loop under the shuffled order dirs: the grid
\* and the stack at the end of the iteration.
LoopBody(g, st, w, h, dirs) ==
    LET x == st[Len(st)][1]
        y == st[Len(st)][2]
        ok == { i \in 1..4 : CanCarve(g, w, h, x + dirs[i][1], y + dirs[i][2]) }
    IN  IF ok # {}
        THEN LET i == CHOOSE k \in ok : \A m \in ok : k <= m
                 dx == dirs[i][1]
                 dy == dirs[i][2]
             IN  [grid |-> Carve(g, x, y, dx, dy),
                  stack |-> Append(st, <<x + dx, y + dy>>)]
        ELSE [grid |-> g, stack |-> SubSeq(st, 1, Len(st) - 1)]

\* Maze.__init__ up to the first loop test: round the dimensions, build the
\* grid, open the start cell and push it.  grid[1][1] = 0 raises IndexError
\* when the grid has no row 1 or no column 1.
MazeInit ==
    /\ pc = "init"
    /\ LET w == OddRound(reqW)
           h == OddRound(reqH)
           g == WallGrid(w, h)
       IN  /\ width' = w
           /\ height' = h
           /\ IF CanIndex(g, start_y, start_x)
              THEN /\ grid' = GridSet(g, start_y, start_x, Passage)
                   /\ stack' = << <<start_x, start_y>> >>
                   /\ pc' = "loop"
                   /\ err' = "none"
              ELSE /\ grid' = g
                   /\ stack' = << >>
                   /\ pc' = "raised"
                   /\ err' = "IndexError"
    /\ UNCHANGED <<reqW, reqH, gameVars, solveVars>>

\* one iteration of the while loop, for some outcome of the shuffle
GenStep ==
    /\ pc = "loop"
    /\ stack # << >>
    /\ \E p \in Shuffles :
          LET r == LoopBody(grid, stack, width, height, shuffle(p))
          IN  /\ grid' = r.grid
              /\ stack' = r.stack
    /\ UNCHANGED <<reqW, reqH, width, height, pc, err, gameVars, solveVars>>

\* the loop test fails: _generate and the constructor return
GenExit ==
    /\ pc = "loop"
    /\ stack = << >>
    /\ pc' = "done"
    /\ UNCHANGED <<mazeVars, err, gameVars, solveVars>>

-----------------------------------------------------------------------------
(* Maze.neighbors, Maze.solve, Maze.reconstruct_path *)

\* the offsets tried by neighbors(), in the order of the source
neighbor_offsets == << <<0, -1>>, <<0, 1>>, <<1, 0>>, <<-1, 0>> >>

\* the walkable neighbours of (x, y), in the order they are yielded
neighbors(g, w, h, x, y) ==
    LET cand == [i \in 1..4 |-> <<x + neighbor_offsets[i][1],
                                  y + neighbor_offsets[i][2]>>]
        Walkable(c) ==
            /\ 0 <= c[1] /\ c[1] < w /\ 0 <= c[2] /\ c[2] < h
            /\ GridGet(g, c[2], c[1]) = Passage
    IN  SelectSeq(cand, Walkable)

\* Discover with the frontier kept as a stack: a new neighbour goes to the
\* front of the queue
RECURSIVE DiscoverToFront(_, _, _, _)
DiscoverToFront(ns, current, queue, preds) ==
    IF ns = << >>
    THEN [queue |-> queue, preds |-> preds]
    ELSE IF Head(ns) \in DOMAIN preds
         THEN DiscoverToFront(Tail(ns), current, queue, preds)
         ELSE DiscoverToFront(Tail(ns), current, <<Head(ns)>> \o queue,
                              preds @@ (Head(ns) :> current))

\* the for loop of solve(): every neighbour not yet in the map gets
\* current as its predecessor and joins the queue
RECURSIVE Discover(_, _, _, _)
Discover(ns, current, queue, preds) ==
    IF ns = << >>
    THEN [queue |-> queue, preds |-> preds]
    ELSE IF Head(ns) \in DOMAIN preds
         THEN Discover(Tail(ns), current, queue, preds)
         ELSE Discover(Tail(ns), current, Append(queue, Head(ns)),
                       preds @@ (Head(ns) :> current))

\* Search without the early exit on the goal
RECURSIVE SearchAll(_, _, _, _, _, _)
SearchAll(g, w, h, t, queue, preds) ==
    IF queue = << >>
    THEN preds
    ELSE LET current == Head(queue)
             r == Discover(neighbors(g, w, h, current[1], current[2]),
                           current, Tail(queue), preds)
         IN  SearchAll(g, w, h, t, r.queue, r.preds)

\* the while loop of solve(): the predecessor map when the loop ends
RECURSIVE Search(_, _, _, _, _, _)
Search(g, w, h, t, queue, preds) ==
    IF queue = << >>
    THEN preds
    ELSE LET current == Head(queue)
         IN  IF current = t
             THEN preds
             ELSE LET r == Discover(neighbors(g, w, h, current[1], current[2]),
                                    current, Tail(queue), preds)
                  IN  Search(g, w, h, t, r.queue, r.preds)

\* the empty dict
EmptyMap == [c \in {} |-> None]

\* solve returning the map of a failed search as it is
solveKeepMap(g, w, h, s, t) == Search(g, w, h, t, <<s>>, (s :> None))

\* Maze.solve: the predecessor map, or the empty map if goal was not found
solve(g, w, h, s, t) ==
    LET preds == Search(g, w, h, t, <<s>>, (s :> None))
    IN  IF t \in DOMAIN preds THEN preds ELSE EmptyMap

Reverse(s) == [i \in 1..Len(s) |-> s[Len(s) + 1 - i]]

\* the while loop of reconstruct_path(): predecessors[current] raises
\* KeyError when current is not a key
RECURSIVE Walk(_, _, _)
Walk(preds, current, acc) ==
    IF current = None
    THEN [err |-> "none", path |-> Reverse(acc)]
    ELSE IF current \notin DOMAIN preds
         THEN [err |-> "KeyError", path |-> << >>]
         ELSE Walk(preds, preds[current], Append(acc, current))

\* Maze.reconstruct_path
reconstruct_path(preds, t) == Walk(preds, t, << >>)

-----------------------------------------------------------------------------
(* The solver on hand-built grids: any grid of SolveW x SolveH cells, any  *)
(* start and goal inside it.                                               *)

Cells(w, h) == (0..(w - 1)) \X (0..(h - 1))

\* result = maze.solve(start, goal)
Solve ==
    /\ pc = "solve"
    /\ predecessors' = solve(grid, width, height, start, goal)
    /\ pc' = "solved"
    /\ UNCHANGED <<mazeVars, err, gameVars, start, goal, path>>

\* maze.reconstruct_path(result, goal), called without looking at result
Reconstruct ==
    /\ pc = "solved"
    /\ LET r == reconstruct_path(predecessors, goal)
       IN  /\ path' = r.path
           /\ err' = r.err
           /\ pc' = IF r.err = "none" THEN "reconstructed" ELSE "raised"
    /\ UNCHANGED <<mazeVars, gameVars, start, goal, predecessors>>

InitSolve ==
    /\ reqW = SolveW
    /\ reqH = SolveH
    /\ width = SolveW
    /\ height = SolveH
    /\ grid \in [1..SolveH -> [1..SolveW -> {Passage, Wall}]]
    /\ stack = << >>
    /\ pc = "solve"
    /\ err = "none"
    /\ player_pos = None
    /\ goal_pos = None
    /\ show_solution = FALSE
    /\ solution_path = << >>
    /\ key = NoKey
    /\ start \in Cells(SolveW, SolveH)
    /\ goal \in Cells(SolveW, SolveH)
    /\ predecessors = EmptyMap
    /\ path = << >>

NextSolve == Solve \/ Reconstruct

SpecSolve == InitSolve /\ [][NextSolve]_vars

-----------------------------------------------------------------------------
(* The constructor Maze(width, height) as one call *)

\* the grids _generate can end with, from the loop state (g, st), over every
\* outcome of every shuffle
RECURSIVE Generated(_, _, _, _)
Generated(g, st, w, h) ==
    IF st = << >>
    THEN {g}
    ELSE UNION { Generated(r.grid, r.stack, w, h) :
                 r \in { LoopBody(g, st, w, h, shuffle(p)) : p \in Shuffles } }

\* the sizes a constructed maze can have within the bounds
Sizes == { <<OddRound(w), OddRound(h)>> : w \in 1..MaxReqW, h \in 1..MaxReqH }

\* the outcomes of Maze(w0, h0): the fields of the object, and the exception
\* the constructor raised, if any
MazeOutcomes ==
    [ d \in Sizes |->
        LET g == WallGrid(d[1], d[2])
        IN  IF CanIndex(g, start_y, start_x)
            THEN { [width |-> d[1], height |-> d[2], grid |-> m, err |-> "none"] :
                   m \in Generated(GridSet(g, start_y, start_x, Passage),
                                   << <<start_x, start_y>> >>, d[1], d[2]) }
            ELSE { [width |-> d[1], height |-> d[2], grid |-> g,
                    err |-> "IndexError"] } ]

Maze(w0, h0) == MazeOutcomes[<<OddRound(w0), OddRound(h0)>>]

-----------------------------------------------------------------------------
(* MazeGame *)

\* the keys getch() can return: the four arrows, q, s, n in both cases, and
\* one key the game does not know
Keys == {"KEY_UP", "KEY_DOWN", "KEY_LEFT", "KEY_RIGHT",
         "q", "Q", "s", "S", "n", "N", "x"}

\* Movement mapping for arrow keys
keymap == [KEY_UP |-> <<0, -1>>, KEY_DOWN |-> <<0, 1>>,
           KEY_LEFT |-> <<-1, 0>>, KEY_RIGHT |-> <<1, 0>>]

\* preds = maze.solve(player, goal);
\* maze.reconstruct_path(preds, goal) if preds else []
SolutionPath(g, w, h, p, t) ==
    LET preds == solve(g, w, h, p, t)
    IN  IF DOMAIN preds # {} THEN reconstruct_path(preds, t) 
        ELSE [err |-> "none", path |-> << >>]

\* the fields of the game, as one value
Game == [width |-> width, height |-> height, grid |-> grid,
         player_pos |-> player_pos, goal_pos |-> goal_pos,
         show_solution |-> show_solution, solution_path |-> solution_path,
         pc |-> pc, err |-> err]

\* NewGame without self.show_solution = False
NewGameKeepFlag(G, w0, h0, next) ==
    { IF m.err # "none"
      THEN [G EXCEPT !.pc = "raised", !.err = m.err]
      ELSE LET p == <<1, 1>>
               t == <<m.width - 2, m.height - 2>>
               sp == SolutionPath(m.grid, m.width, m.height, p, t)
           IN  [width |-> m.width, height |-> m.height, grid |-> m.grid,
                player_pos |-> p, goal_pos |-> t,
                show_solution |-> G.show_solution,
                solution_path |-> sp.path, pc |-> next, err |-> "none"]
      : m \in Maze(w0, h0) }

\* self.maze = Maze(w0, h0) and the four assignments that follow it, in
\* MazeGame.__init__, handle_input and handle_win_input; then control is at next
NewGame(G, w0, h0, next) ==
    { IF m.err # "none"
      THEN [G EXCEPT !.pc = "raised", !.err = m.err]
      ELSE LET p == <<1, 1>>
               t == <<m.width - 2, m.height - 2>>
               sp == SolutionPath(m.grid, m.width, m.height, p, t)
           IN  IF sp.err # "none"
               THEN [G EXCEPT !.pc = "raised", !.err = sp.err]
               ELSE [width |-> m.width, height |-> m.height, grid |-> m.grid,
                     player_pos |-> p, goal_pos |-> t, show_solution |-> FALSE,
                     solution_path |-> sp.path, pc |-> next, err |-> "none"]
      : m \in Maze(w0, h0) }

\* WinCheck that never finds the player on the goal
WinCheckNever(G) == G

\* Check win condition: handle_input ends inside handle_win_input when the
\* player is on the goal
WinCheck(G) ==
    IF G.pc = "Playing" /\ G.player_pos = G.goal_pos
    THEN [G EXCEPT !.pc = "Won"]
    ELSE G

\* Move that keeps the cached path after an accepted move
MoveKeepPath(G, k) ==
    LET new_x == G.player_pos[1] + keymap[k][1]
        new_y == G.player_pos[2] + keymap[k][2]
    IN  IF ~CanIndex(G.grid, new_y, new_x)
        THEN [G EXCEPT !.pc = "raised", !.err = "IndexError"]
        ELSE IF GridGet(G.grid, new_y, new_x) = Passage
             THEN [G EXCEPT !.player_pos = <<new_x, new_y>>]
             ELSE G

\* Move without the test that the new position is a passage
MoveThroughWalls(G, k) ==
    LET new_x == G.player_pos[1] + keymap[k][1]
        new_y == G.player_pos[2] + keymap[k][2]
    IN  IF ~CanIndex(G.grid, new_y, new_x)
        THEN [G EXCEPT !.pc = "raised", !.err = "IndexError"]
        ELSE LET sp == SolutionPath(G.grid, G.width, G.height,
                                    <<new_x, new_y>>, G.goal_pos)
             IN  IF sp.err # "none"
                 THEN [G EXCEPT !.player_pos = <<new_x, new_y>>,
                                !.pc = "raised", !.err = sp.err]
                 ELSE [G EXCEPT !.player_pos = <<new_x, new_y>>,
                                !.solution_path = sp.path]

\* the arrow-key branch of handle_input
Move(G, k) ==
    LET new_x == G.player_pos[1] + keymap[k][1]
        new_y == G.player_pos[2] + keymap[k][2]
    IN  IF ~CanIndex(G.grid, new_y, new_x)
        THEN [G EXCEPT !.pc = "raised", !.err = "IndexError"]
        ELSE IF GridGet(G.grid, new_y, new_x) = Passage
             THEN LET sp == SolutionPath(G.grid, G.width, G.height,
                                         <<new_x, new_y>>, G.goal_pos)
                  IN  IF sp.err # "none"
                      THEN [G EXCEPT !.player_pos = <<new_x, new_y>>,
                                     !.pc = "raised", !.err = sp.err]
                      ELSE [G EXCEPT !.player_pos = <<new_x, new_y>>,
                                     !.solution_path = sp.path]
             ELSE G

\* MazeGame.handle_input on key k: the games it can leave behind
handle_input(G, k) ==
    IF k \in DOMAIN keymap
    THEN {WinCheck(Move(G, k))}
    ELSE IF k \in {"q", "Q"}
    THEN {[G EXCEPT !.pc = "Quit"]}
    ELSE IF k \in {"s", "S"}
    THEN {WinCheck([G EXCEPT !.show_solution = ~G.show_solution])}
    ELSE IF k \in {"n", "N"}
    THEN {WinCheck(r) : r \in NewGame(G, G.width, G.height, "Playing")}
    ELSE {WinCheck(G)}

\* handle_win_input that also obeys the solution key
handle_win_inputToggles(G, k) ==
    IF k \in {"q", "Q"}
    THEN {[G EXCEPT !.pc = "Quit"]}
    ELSE IF k \in {"n", "N"}
    THEN NewGame(G, G.width, G.height, "Playing")
    ELSE IF k \in {"s", "S"}
    THEN {[G EXCEPT !.show_solution = ~G.show_solution]}
    ELSE {G}

\* one iteration of the loop of MazeGame.handle_win_input on key k; the
\* StopIteration raised on q is caught by main, which returns
handle_win_input(G, k) ==
    IF k \in {"q", "Q"}
    THEN {[G EXCEPT !.pc = "Quit"]}
    ELSE IF k \in {"n", "N"}
    THEN NewGame(G, G.width, G.height, "Playing")
    ELSE {G}

\* the variables take the fields of r
Becomes(r) ==
    /\ width' = r.width
    /\ height' = r.height
    /\ grid' = r.grid
    /\ player_pos' = r.player_pos
    /\ goal_pos' = r.goal_pos
    /\ show_solution' = r.show_solution
    /\ solution_path' = r.solution_path
    /\ pc' = r.pc
    /\ err' = r.err

\* game = MazeGame(stdscr, reqW, reqH)
Construct ==
    /\ pc = "construct"
    /\ \E r \in NewGame(Game, reqW, reqH, "Playing") : Becomes(r)
    /\ UNCHANGED <<reqW, reqH, stack, key, solveVars>>

\* main calls handle_input, which reads a key
HandleInput ==
    /\ pc = "Playing"
    /\ \E k \in Keys :
          /\ key' = k
          /\ \E r \in handle_input(Game, k) : Becomes(r)
    /\ UNCHANGED <<reqW, reqH, stack, solveVars>>

\* handle_win_input reads a key
HandleWinInput ==
    /\ pc = "Won"
    /\ \E k \in Keys :
          /\ key' = k
          /\ \E r \in handle_win_input(Game, k) : Becomes(r)
    /\ UNCHANGED <<reqW, reqH, stack, solveVars>>

Init ==
    /\ reqW \in 1..MaxReqW
    /\ reqH \in 1..MaxReqH
    /\ width = 0
    /\ height = 0
    /\ grid = << >>
    /\ stack = << >>
    /\ pc = "construct"
    /\ err = "none"
    /\ player_pos = None
    /\ goal_pos = None
    /\ show_solution = FALSE
    /\ solution_path = << >>
    /\ key = NoKey
    /\ start = None
    /\ goal = None
    /\ predecessors = EmptyMap
    /\ path = << >>

Next == Construct \/ HandleInput \/ HandleWinInput

Spec == Init /\ [][Next]_vars

InitGen ==
    /\ reqW \in 1..MaxReqW
    /\ reqH \in 1..MaxReqH
    /\ width = 0
    /\ height = 0
    /\ grid = << >>
    /\ stack = << >>
    /\ pc = "init"
    /\ err = "none"
    /\ player_pos = None
    /\ goal_pos = None
    /\ show_solution = FALSE
    /\ solution_path = << >>
    /\ key = NoKey
    /\ start = None
    /\ goal = None
    /\ predecessors = EmptyMap
    /\ path = << >>

NextGen == MazeInit \/ GenStep \/ GenExit

SpecGen == InitGen /\ [][NextGen]_vars

\* the constructor runs on: the program never stops while a step of it
\* remains to be taken
SpecGenFair == SpecGen /\ WF_vars(NextGen)

-----------------------------------------------------------------------------
(* The passage graph of a grid *)

\* the cells of g that are Passage
PassageCells(g, w, h) == { c \in Cells(w, h) : GridGet(g, c[2], c[1]) = Passage }

\* two cells are 4-adjacent
Adjacent(a, b) ==
    \/ a[1] = b[1] /\ (a[2] = b[2] + 1 \/ b[2] = a[2] + 1)
    \/ a[2] = b[2] /\ (a[1] = b[1] + 1 \/ b[1] = a[1] + 1)

\* the edges of the passage graph on the cells V, each in both directions
PassageEdges(V) == { e \in V \X V : Adjacent(e[1], e[2]) }

\* S and every cell of V one step away from a cell of S
Expand(V, S) == S \cup { c \in V : \E a \in S : Adjacent(a, c) }

\* the cells that can be reached from the cells S by steps onto cells of V
RECURSIVE Closure(_, _)
Closure(V, S) ==
    LET T == Expand(V, S)
    IN  IF T = S THEN S ELSE Closure(V, T)

\* the passage graph on V is a tree that contains root
IsTree(V, root) ==
    /\ root \in V
    /\ Closure(V, {root}) = V
    /\ Cardinality(PassageEdges(V)) = 2 * (Cardinality(V) - 1)

-----------------------------------------------------------------------------
(* Claims about Maze.__init__ and Maze._generate, under SpecGen *)

\* C1: for odd width and height >= 3, at every loop-iteration boundary of
\* _generate and when it has finished, the Passage cells with their
\* 4-adjacency form a tree containing (1,1): connected and without a cycle.
C1_PerfectMaze ==
    (pc \in {"loop", "done"} /\ width >= 3 /\ height >= 3)
        => IsTree(PassageCells(grid, width, height), <<1, 1>>)

\* a finished 7 x 5 maze in which some Passage cell has three open sides
C1_Witness ==
    /\ pc = "done"
    /\ width = 7 /\ height = 5
    /\ LET V == PassageCells(grid, width, height)
       IN  \E c \in V : Cardinality({ d \in V : Adjacent(c, d) }) = 3

\* C3: with a width or height of 1, generation ends without an
\* out-of-bounds grid access and yields a degenerate maze.
C3_TinyMazeInBounds ==
    (pc # "init" /\ (width = 1 \/ height = 1))
        => (err = "none" /\ pc \in {"loop", "done"})

\* C4: the constructed maze has each requested dimension unchanged if odd
\* and incremented by one if even, and the grid has height rows of width
\* cells.
C4_OddDimensions ==
    pc # "init" =>
        /\ width = (IF reqW % 2 = 1 THEN reqW ELSE reqW + 1)
        /\ height = (IF reqH % 2 = 1 THEN reqH ELSE reqH + 1)
        /\ Len(grid) = height
        /\ \A y \in 1..Len(grid) : Len(grid[y]) = width

\* a finished maze requested as 6 x 4 and built as 7 x 5
C4_Witness ==
    pc = "done" /\ reqW = 6 /\ reqH = 4 /\ width = 7 /\ height = 5

\* the cells with both coordinates odd that lie inside the border
OddCells(w, h) == { c \in Cells(w, h) : c[1] % 2 = 1 /\ c[2] % 2 = 1 }

C12_BorderStaysWall ==
    (pc \in {"loop", "done"} /\ width >= 3 /\ height >= 3) =>
        \A c \in PassageCells(grid, width, height) :
            /\ 1 <= c[1] /\ c[1] <= width - 2
            /\ 1 <= c[2] /\ c[2] <= height - 2

\* a finished 7 x 5 maze: the cells next to the right and bottom border are
\* open and the border is not
C12_Witness ==
    /\ pc = "done"
    /\ width = 7 /\ height = 5
    /\ GridGet(grid, 3, 5) = Passage
    /\ GridGet(grid, 4, 5) = Wall
    /\ GridGet(grid, 3, 6) = Wall

\* C16: for odd width and height >= 3 and every sequence of shuffle
\* outcomes, the carving loop ends: the stack becomes empty and _generate
\* returns; the stack never holds more cells than there are odd cells.
C16_GenerateTerminates ==
    /\ (pc = "loop") ~> (pc = "done" /\ stack = << >>)
    /\ [](Len(stack) <= Cardinality(OddCells(width, height)))

\* a 7 x 5 generation with every odd cell on the stack: the longest stack
C16_Witness ==
    /\ pc = "loop"
    /\ width = 7 /\ height = 5
    /\ Len(stack) = Cardinality(OddCells(width, height))

\* C18: when generation finishes (odd width and height >= 3), every cell
\* with x and y both odd inside the border is Passage, the goal cell
\* (width-2, height-2) among them.
C18_EveryOddCellOpen ==
    (pc = "done" /\ width >= 3 /\ height >= 3) =>
        /\ \A c \in OddCells(width, height) : GridGet(grid, c[2], c[1]) = Passage
        /\ <<width - 2, height - 2>> \in OddCells(width, height)
        /\ GridGet(grid, height - 2, width - 2) = Passage

\* a finished 7 x 5 maze in which the goal cell (5,3) is a dead end
C18_Witness ==
    /\ pc = "done"
    /\ width = 7 /\ height = 5
    /\ LET V == PassageCells(grid, width, height)
       IN  /\ <<5, 3>> \in V
           /\ Cardinality({ d \in V : Adjacent(<<5, 3>>, d) }) = 1

\* the cell halfway between two cells that are two apart
Midpoint(a, b) == <<(a[1] + b[1]) \div 2, (a[2] + b[2]) \div 2>>

\* two cells differ by exactly 2 in one axis and not in the other
TwoApart(a, b) ==
    \/ a[1] = b[1] /\ (a[2] = b[2] + 2 \/ b[2] = a[2] + 2)
    \/ a[2] = b[2] /\ (a[1] = b[1] + 2 \/ b[1] = a[1] + 2)

\* C20: at every loop-iteration boundary of _generate the stack holds
\* pairwise distinct Passage cells with both coordinates odd, its bottom
\* is (1,1), and consecutive cells are two apart in one axis with the cell
\* between them Passage.
C20_StackIsCarvedPath ==
    pc = "loop" =>
        /\ \A i, j \in 1..Len(stack) : i # j => stack[i] # stack[j]
        /\ \A i \in 1..Len(stack) :
              /\ stack[i] \in OddCells(width, height)
              /\ GridGet(grid, stack[i][2], stack[i][1]) = Passage
        /\ stack # << >> => stack[1] = <<1, 1>>
        /\ \A i \in 1..(Len(stack) - 1) :
              /\ TwoApart(stack[i], stack[i + 1])
              /\ LET m == Midpoint(stack[i], stack[i + 1])
                 IN  GridGet(grid, m[2], m[1]) = Passage

\* a 7 x 5 generation that has backtracked and carved again: the stack is
\* shorter than the number of open odd cells and longer than one cell
C20_Witness ==
    /\ pc = "loop"
    /\ width = 7 /\ height = 5
    /\ Len(stack) > 2
    /\ Len(stack) <
          Cardinality(PassageCells(grid, width, height) \cap OddCells(width, height))
    /\ GridGet(grid, stack[Len(stack)][2], stack[Len(stack)][1]) = Passage

-----------------------------------------------------------------------------
(* Claims about Maze.solve and Maze.reconstruct_path, under SpecSolve *)

\* the cells reachable from s by steps onto 4-adjacent Passage cells
ReachableFrom(s) == Closure(PassageCells(grid, width, height), {s})

\* the least number of steps onto 4-adjacent Passage cells that lead from
\* the cells S to t, counted from n; -1 when t is not reachable from S
RECURSIVE StepsTo(_, _, _, _)
StepsTo(V, S, t, n) ==
    IF t \in S
    THEN n
    ELSE LET T == Expand(V, S)
         IN  IF T = S THEN -1 ELSE StepsTo(V, T, t, n + 1)

Distance(s, t) ==
    LET V == PassageCells(grid, width, height) IN StepsTo(V, {s}, t, 0)

IsPassage(c) == GridGet(grid, c[2], c[1]) = Passage

\* C2: for Passage cells start and goal with goal reachable from start,
\* reconstruct_path(solve(start, goal), goal) begins at start, ends at goal,
\* steps between 4-adjacent Passage cells, and has as many steps as the
\* shortest-path distance from start to goal.
C2_ShortestPath ==
    (IsPassage(start) /\ IsPassage(goal) /\ goal \in ReachableFrom(start))
        => /\ pc = "solved" => goal \in DOMAIN predecessors
           /\ pc # "raised"
           /\ pc = "reconstructed" =>
                /\ Len(path) >= 1
                /\ path[1] = start
                /\ path[Len(path)] = goal
                /\ \A i \in 1..Len(path) : IsPassage(path[i])
                /\ \A i \in 1..(Len(path) - 1) : Adjacent(path[i], path[i + 1])
                /\ Len(path) - 1 = Distance(start, goal)

\* a reconstructed path of four steps on a grid where every cell is open
\* except one, so that longer walks to the goal exist as well
C2_Witness ==
    /\ pc = "reconstructed"
    /\ Len(path) = 4
    /\ Cardinality(PassageCells(grid, width, height)) = SolveW * SolveH - 1

\* C9: solve(start, goal) returns the empty map exactly when goal is not
\* reachable from start by steps onto 4-adjacent Passage cells (and start
\* is not goal); otherwise the map has goal as a key.  It never raises.
C9_EmptyMapIffUnreachable ==
    pc = "solved" =>
        /\ (DOMAIN predecessors = {})
              <=> (goal \notin ReachableFrom(start) /\ start # goal)
        /\ DOMAIN predecessors # {} => goal \in DOMAIN predecessors
        /\ err = "none"

\* solve has returned the empty map for two Passage cells in two regions
C9_Witness ==
    /\ pc = "solved"
    /\ DOMAIN predecessors = {}
    /\ IsPassage(start) /\ IsPassage(goal)
    /\ Cardinality(ReachableFrom(start)) > 1

\* C10: solve(c, c) returns the map that holds only c, mapped to None, and
\* reconstruct_path on it returns [c].
C10_StartIsGoal ==
    start = goal =>
        /\ pc # "raised"
        /\ pc \in {"solved", "reconstructed"} => predecessors = (start :> None)
        /\ pc = "reconstructed" => path = <<start>>

\* the path [c] for a Passage cell c that has an open neighbour
C10_Witness ==
    /\ pc = "reconstructed"
    /\ start = goal
    /\ IsPassage(start)
    /\ Cardinality(ReachableFrom(start)) > 1
    /\ path = <<start>>

-----------------------------------------------------------------------------
(* Claims about MazeGame, under Spec *)

\* the cell an arrow key k aims at, and whether it is a Wall
Target(k) == <<player_pos[1] + keymap[k][1], player_pos[2] + keymap[k][2]>>

TargetIsWall(k) ==
    /\ CanIndex(grid, Target(k)[2], Target(k)[1])
    /\ GridGet(grid, Target(k)[2], Target(k)[1]) = Wall

\* C5: in Playing, a move whose target cell is a Wall changes nothing: the
\* player position, the cached path, the visibility flag, the maze and the
\* goal stay as they are and the game stays in Playing.
C5_WallMoveIsNoOp ==
    [][ (pc = "Playing" /\ key' \in DOMAIN keymap /\ TargetIsWall(key'))
            => UNCHANGED <<player_pos, solution_path, show_solution, width,
                           height, grid, goal_pos, pc>> ]_vars

\* C6: an accepted move in Playing that puts the player on the goal leaves
\* the game in Won; from Won, a new-maze key leads to Playing and a quit key
\* ends the game.
C6_WinTransitions ==
    [][ /\ (pc = "Playing" /\ key' \in DOMAIN keymap
               /\ player_pos' # player_pos /\ player_pos' = goal_pos')
            => pc' = "Won"
        /\ (pc = "Won" /\ key' \in {"n", "N"}) => pc' = "Playing"
        /\ (pc = "Won" /\ key' \in {"q", "Q"}) => pc' = "Quit" ]_vars

\* the game is in Won after an arrow key, in a maze where the start is not
\* the goal: the last move stepped onto the goal
C6_Witness ==
    /\ pc = "Won"
    /\ key \in DOMAIN keymap
    /\ player_pos = goal_pos
    /\ goal_pos # <<1, 1>>
    /\ width = 7 /\ height = 5

\* C7: a new-maze key, in Playing or in Won, replaces the maze by a freshly
\* generated one of the same width and height, puts the player on (1,1) and
\* the goal on (width-2, height-2), clears the visibility flag and caches
\* the solver's path from (1,1) to the goal in the new maze.  The state
\* right after the key is the state in which key is n or N.
C7_NewMaze ==
    /\ [][ (pc \in {"Playing", "Won"} /\ key' \in {"n", "N"})
              => (width' = width /\ height' = height /\ err' = "none") ]_vars
    /\ [](key \in {"n", "N"} =>
            /\ Len(grid) = height
            /\ \A y \in 1..height : Len(grid[y]) = width
            /\ IsTree(PassageCells(grid, width, height), <<1, 1>>)
            /\ player_pos = <<1, 1>>
            /\ goal_pos = <<width - 2, height - 2>>
            /\ show_solution = FALSE
            /\ LET found == solve(grid, width, height, <<1, 1>>,
                                  <<width - 2, height - 2>>)
               IN  /\ goal_pos \in DOMAIN found
                   /\ solution_path =
                         reconstruct_path(found, <<width - 2, height - 2>>).path
            /\ solution_path[1] = <<1, 1>>
            /\ solution_path[Len(solution_path)] = <<width - 2, height - 2>>)

\* a new 7 x 5 maze has just been made on a key n
C7_Witness ==
    /\ key \in {"n", "N"}
    /\ pc = "Playing"
    /\ width = 7 /\ height = 5
    /\ player_pos = <<1, 1>>
    /\ show_solution = FALSE
    /\ Len(solution_path) > 1

\* C8: in Playing, the solution key negates the visibility flag and changes
\* nothing else (maze, player, goal and cached path stay, the game stays in
\* Playing), and a second solution key restores the state before the first.
C8_ToggleOnly ==
    [][ (pc = "Playing" /\ key' \in {"s", "S"})
            => /\ show_solution' = ~show_solution
               /\ UNCHANGED <<width, height, grid, player_pos, goal_pos,
                              solution_path, pc>>
               /\ \A r \in handle_input(Game', key') : r = Game ]_vars

\* a cell lies inside the border of the current maze
Interior(c) ==
    /\ 1 <= c[1] /\ c[1] <= width - 2
    /\ 1 <= c[2] /\ c[2] <= height - 2

\* the game has been constructed and has not raised
Running == pc \in {"Playing", "Won", "Quit"}

\* C14: in every reachable game state (odd dimensions >= 3) the cached path
\* is fresh: non-empty, from the player position to the goal, equal to the
\* solver's shortest path between them in the current maze, whatever the
\* visibility flag.
C14_PathIsFresh ==
    (Running /\ width >= 3 /\ height >= 3) =>
        /\ Len(solution_path) >= 1
        /\ solution_path[1] = player_pos
        /\ solution_path[Len(solution_path)] = goal_pos
        /\ \A i \in 1..(Len(solution_path) - 1) :
              Adjacent(solution_path[i], solution_path[i + 1])
        /\ \A i \in 1..Len(solution_path) : IsPassage(solution_path[i])
        /\ Len(solution_path) - 1 = Distance(player_pos, goal_pos)
        /\ LET found == solve(grid, width, height, player_pos, goal_pos)
           IN  /\ goal_pos \in DOMAIN found
               /\ solution_path = reconstruct_path(found, goal_pos).path

\* the player has left the start by accepted moves with the solution
\* hidden, and the cached path begins where the player now stands
C14_Witness ==
    /\ pc = "Playing"
    /\ key \in DOMAIN keymap
    /\ show_solution = FALSE
    /\ player_pos # <<1, 1>>
    /\ Len(solution_path) > 1
    /\ solution_path[1] = player_pos

\* C15: the game starts in Playing and enters Won only by an accepted move
\* that lands on the goal, for every maze size, 3 x 3 included.
C15_WonOnlyByMove ==
    [][ /\ pc = "construct" => pc' \in {"Playing", "raised"}
        /\ (pc = "Playing" /\ pc' = "Won")
              => /\ key' \in DOMAIN keymap
                 /\ player_pos' # player_pos
                 /\ player_pos' = goal_pos' ]_vars

\* C17: in every reachable game state (odd dimensions >= 3) the player and
\* the goal are Passage cells inside the border, so every move's target is
\* a cell of the grid, nothing has raised, and the map the path is
\* reconstructed from has the goal as a key.
C17_PositionsStayInside ==
    (pc # "construct" /\ width >= 3 /\ height >= 3) =>
        /\ pc # "raised"
        /\ err = "none"
        /\ Interior(player_pos) /\ IsPassage(player_pos)
        /\ Interior(goal_pos) /\ IsPassage(goal_pos)
        /\ \A k \in DOMAIN keymap : Target(k) \in Cells(width, height)
        /\ goal_pos \in DOMAIN solve(grid, width, height, player_pos, goal_pos)

\* the player stands next to the right border of a 7 x 5 maze, where a
\* move to the right aims at the border column
C17_Witness ==
    /\ pc = "Playing"
    /\ width = 7 /\ height = 5
    /\ player_pos[1] = width - 2
    /\ Target("KEY_RIGHT") = <<width - 1, player_pos[2]>>

\* C19: in Won, a key other than new-maze and quit changes nothing: the
\* maze, the player position, the goal, the visibility flag and the cached
\* path stay and the game stays in Won.
C19_WonIgnoresOtherKeys ==
    [][ (pc = "Won" /\ key' \notin {"n", "N", "q", "Q"})
            => UNCHANGED <<width, height, grid, player_pos, goal_pos,
                           show_solution, solution_path, pc, err>> ]_vars

\* the solution key has just been read in Won, in a maze where the start is
\* not the goal: Won was entered earlier, by a move
C19_Witness ==
    /\ pc = "Won"
    /\ key \in {"s", "S"}
    /\ goal_pos # <<1, 1>>
    /\ player_pos = goal_pos

=============================================================================
